---- MODULE Spec2Model ----
(***************************************************************************)
(* Model of the l2treviewtools review workflow: scripts/review.py (Main),  *)
(* helpers/review.py (ReviewHelper), helpers/upload.py (UploadHelper),     *)
(* helpers/github.py (GitHubHelper) and helpers/pylint.py (PylintHelper).  *)
(*                                                                         *)
(* Text is modelled as a sequence of tokens: <<"alice", ":", "feature">>   *)
(* is the string "alice:feature" and << >> is the empty string.  A Python  *)
(* None of a text-valued field is modelled as << >> as well: the code only *)
(* ever tests such values for truthiness.  A missing or zero issue number  *)
(* is 0.                                                                   *)
(***************************************************************************)
EXTENDS Integers, Sequences, FiniteSets, TLC

(***************************************************************************)
(* Bounds of the model.                                                    *)
(***************************************************************************)
\* number of distinct issue numbers the review service may hand out
MaxIssues == 2
\* longest ticket subject, in tokens, of the subject-stripping specification
MaxSubjectLen == 5
\* number of UploadHelper calls of the credential-cache specification
MaxCalls == 3
\* longest list of files handed to the linter
MaxFiles == 3
\* largest component of a version `pylint --version` reports
MaxVersionPart == 10

(***************************************************************************)
(* Values.                                                                 *)
(***************************************************************************)
Master == <<"master">>
Feature == <<"feature">>
ForkFeature == <<"alice", ":", "feature">>

Commands ==
  {"close", "create", "merge", "merge-edit", "merge_edit", "lint",
   "lint-test", "lint_test", "open", "test", "update", "update-authors",
   "update_authors", "update-version", "update_version"}

\* issue numbers: 0 stands for a missing number
IssueNumbers == 12345 .. (12344 + MaxIssues)

\* branches a review file may exist for when the run starts
ReviewBranches == {Feature}

\* values of the BRANCH argument of close and open
BranchArguments == {<< >>, Feature, Master, ForkFeature}

\* values of the GITHUB_ORIGIN argument of merge and merge-edit
OriginArguments == {<< >>, ForkFeature, <<"alice">>}

\* an event of the run: one call of a collaborator and its outcome
Ev(op, ok) == [op |-> op, ret |-> ok, arg |-> ""]
EvArg(op, ok, arg) == [op |-> op, ret |-> ok, arg |-> arg]

\* the collaborator calls that send a request with urlopen and catch
\* HTTPError only: an error of the transport leaves them as an exception
RequestOps ==
  {"QueryIssue", "QueryUser", "CreatePullRequest", "CloseIssue",
   "AddMergeMessage", "TriggerBuild"}

\* the events of a method when its call number i raises instead of returning:
\* nothing after that call happens
EscapeAt(events, i) ==
  SubSeq(events, 1, i - 1) \o <<EvArg(events[i].op, FALSE, "raised")>>

\* the calls of a method that may raise; 0 stands for none of them raising
EscapePoints(events) ==
  {0} \cup {i \in 1..Len(events) : events[i].op \in RequestOps}

VARIABLES
  command,          \* options.command
  offline,          \* options.offline
  branch_arg,       \* options.branch
  issue_arg,        \* options.codereview_issue_number
  origin_arg,       \* options.github_origin
  netrc,            \* ~/.netrc: "absent", "no_token" or "token"
  git_active_branch,\* the branch checked out in the working copy
  review_files,     \* .review/<branch>: branch -> issue number
  pc,               \* position of Main
  result,           \* exit status: -1 while running, then 0 or 1
  active_branch,    \* ReviewHelper._active_branch
  feature_branch,   \* ReviewHelper._feature_branch
  fork_username,    \* ReviewHelper._fork_username
  fork_feature_branch, \* ReviewHelper._fork_feature_branch
  project_name,     \* ReviewHelper._project_name
  merge_author,     \* ReviewHelper._merge_author
  merge_description,\* ReviewHelper._merge_description
  ticket_info,      \* response of QueryIssue seen by PrepareMerge
  user_info,        \* response of QueryUser seen by PrepareMerge
  returned,         \* ReviewHelper method -> value it returned in this run
  trace,            \* calls of the collaborators, in order
  upload_helper,    \* UploadHelper: _email_address, _access_token, _xsrf_token
  fetches,          \* token requests the UploadHelper sent and tokens it got
  upload_command,   \* the upload.py command line CreateIssue last ran
  calls,            \* number of UploadHelper calls made so far
  exchange,         \* the last network operation of a client: its response
                    \* and what the caller saw of it
  check_files,      \* PylintHelper.CheckFiles: its argument, the files pylint
                    \* finds fault with, and what the call did
  version_check     \* PylintHelper.CheckUpToDateVersion: what `pylint
                    \* --version` answers, and what the call did

\* the arguments and the credential file do not change during a run
inputs == <<command, offline, branch_arg, issue_arg, origin_arg, netrc>>

wfvars ==
  <<command, offline, branch_arg, issue_arg, origin_arg, netrc,
    git_active_branch, review_files, pc, result, active_branch,
    feature_branch, fork_username, fork_feature_branch, project_name,
    merge_author, merge_description, ticket_info, user_info, returned,
    trace>>

upvars == <<upload_helper, fetches, upload_command, calls, exchange>>

\* the helpers looked at on their own
helpervars == <<upvars, check_files, version_check>>

vars == <<wfvars, upvars, check_files, version_check>>

(***************************************************************************)
(* Text helpers.                                                           *)
(***************************************************************************)
Contains(s, t) == \E i \in 1..Len(s) : s[i] = t

FirstIndex(s, t) == CHOOSE i \in 1..Len(s) : s[i] = t /\ \A j \in 1..(i - 1) : s[j] # t

LastIndex(s, t) == CHOOSE i \in 1..Len(s) : s[i] = t /\ \A j \in (i + 1)..Len(s) : s[j] # t

\* str.partition(t)[0] and str.partition(t)[2]
PartitionHead(s, t) == IF Contains(s, t) THEN SubSeq(s, 1, FirstIndex(s, t) - 1) ELSE s

PartitionTail(s, t) == IF Contains(s, t) THEN SubSeq(s, FirstIndex(s, t) + 1, Len(s)) ELSE << >>

\* str.rpartition(t)[2]
RPartitionTail(s, t) == IF Contains(s, t) THEN SubSeq(s, LastIndex(s, t) + 1, Len(s)) ELSE s

\* the calls of the trace with the given name
Calls(op) == {i \in 1..Len(trace) : trace[i].op = op}

Called(op) == Calls(op) # {}

\* the value a ReviewHelper method returned, once it has returned
SetReturned(method, value) ==
  [m \in (DOMAIN returned) \cup {method} |-> IF m = method THEN value ELSE returned[m]]

HasReturned(method, value) == method \in DOMAIN returned /\ returned[method] = value

(***************************************************************************)
(* Responses of the review service and of GitHub used by PrepareMerge.     *)
(***************************************************************************)
NoTicket == [ok |-> FALSE, subject |-> << >>, owner_email |-> << >>, owner |-> << >>]

NoUser == [ok |-> FALSE, name |-> << >>, company |-> << >>]

SampleSubjects == {<< >>, <<"Fix">>, <<"[", "plaso", "]", " ", "Fix">>}

TicketInfos(subjects) ==
  {NoTicket} \cup
  [ok : {TRUE}, subject : subjects, owner_email : {<< >>, <<"a@b.com">>},
   owner : {<< >>, <<"Alice">>}]

UserInfos ==
  {NoUser} \cup [ok : {TRUE}, name : {<< >>, <<"Al">>}, company : {<< >>, <<"Acme">>}]

(***************************************************************************)
(* Main: argument validation (scripts/review.py).                          *)
(***************************************************************************)
MergeCommands == {"merge", "merge-edit", "merge_edit"}

\* the commands --offline is accepted for
OfflineCommandsWithCreate == {"create", "lint", "lint-test", "lint_test", "test"}

OfflineCommands == {"lint", "lint-test", "lint_test", "test"}

\* the feature branch Main hands to the ReviewHelper: the "username:branch"
\* reduction is nested in the branch taken when the value is missing
ParseFeatureBranch(cmd, branch) ==
  IF cmd \in {"close", "open"}
  THEN IF branch = << >>
       THEN IF Contains(branch, ":") THEN RPartitionTail(branch, ":") ELSE branch
       ELSE branch
  ELSE << >>

PrintHelpOnError(cmd, branch, issue, origin, off) ==
  \/ cmd \in {"close", "open"} /\ branch = << >>
  \/ cmd \in {"merge", "open"} /\ issue = 0
  \/ cmd \in MergeCommands /\ origin = << >>
  \/ off /\ cmd \notin OfflineCommands

\* the check for ~/.netrc
NetrcMissingNever(n) == FALSE

NetrcMissing(n) == n = "absent"

\* where Main continues after the repository state checks
AfterRemote ==
  IF command = "merge" THEN "prepare"
  ELSE IF command \in MergeCommands THEN "pull" ELSE "lint"

\* Main returns False as soon as a step returns False
Continue(ok, next) ==
  IF ok THEN pc' = next /\ result' = result
        ELSE pc' = "done" /\ result' = 1

\* Main returns the value of the command's procedure
Finish(ok) == pc' = "done" /\ result' = IF ok THEN 0 ELSE 1

\* neither the ReviewHelper nor Main catches an exception: the interpreter
\* prints the traceback and exits with status 1
Crash == pc' = "done" /\ result' = 1

ParseArguments ==
  /\ pc = "parse"
  /\ IF PrintHelpOnError(command, branch_arg, issue_arg, origin_arg, offline)
     THEN pc' = "done" /\ result' = 1
     ELSE pc' = "netrc" /\ result' = result
  /\ UNCHANGED <<inputs, helpervars, git_active_branch, review_files, active_branch,
                 feature_branch, fork_username, fork_feature_branch,
                 project_name, merge_author, merge_description, ticket_info,
                 user_info, returned, trace>>

\* the .netrc check and the construction of the ReviewHelper
CreateReviewHelper ==
  /\ pc = "netrc"
  /\ IF NetrcMissing(netrc)
     THEN /\ pc' = "done" /\ result' = 1
          /\ UNCHANGED <<feature_branch, fork_username, fork_feature_branch>>
     ELSE /\ pc' = "init" /\ result' = result
          /\ feature_branch' = ParseFeatureBranch(command, branch_arg)
          /\ fork_username' = PartitionHead(origin_arg, ":")
          /\ fork_feature_branch' = PartitionTail(origin_arg, ":")
  /\ UNCHANGED <<inputs, helpervars, git_active_branch, review_files, active_branch,
                 project_name, merge_author, merge_description, ticket_info,
                 user_info, returned, trace>>

(***************************************************************************)
(* ReviewHelper.InitializeHelpers.                                         *)
(***************************************************************************)
ProjectNames == {"", "plaso", "l2tdocs"}

InitializeHelpers ==
  /\ pc = "init"
  /\ \E name \in ProjectNames :
       /\ project_name' = name
       /\ returned' = SetReturned("InitializeHelpers", name # "")
       /\ trace' = trace \o
            (IF name # "" /\ command \in {"close", "create", "merge", "update"}
             THEN <<Ev("GetEmailAddress", TRUE)>> ELSE << >>)
       /\ Continue(name # "", "local")
  /\ UNCHANGED <<inputs, helpervars, git_active_branch, review_files, active_branch,
                 feature_branch, fork_username, fork_feature_branch,
                 merge_author, merge_description, ticket_info, user_info>>

(***************************************************************************)
(* ReviewHelper.CheckLocalGitState.                                        *)
(***************************************************************************)
CheckLocalGitStateCall(cmd, feat, git_active, hasRemote, dirty) ==
  LET e1 == IF cmd \in {"close", "create", "lint", "lint-test", "lint_test", "update"}
            THEN <<Ev("CheckHasProjectUpstream", hasRemote)>>
            ELSE IF cmd = "merge"
                 THEN <<Ev("CheckHasProjectOrigin", hasRemote)>> ELSE << >>
      checksDirty == cmd \notin {"lint", "lint-test", "lint_test", "test",
                                 "update-version", "update_version"}
      e2 == e1 \o (IF checksDirty
                   THEN <<Ev("CheckHasUncommittedChanges", dirty)>> ELSE << >>)
      e3 == e2 \o <<Ev("GetActiveBranch", TRUE)>>
  IN  IF e1 # << >> /\ ~hasRemote
      THEN [ok |-> FALSE, events |-> e1, active |-> << >>, git |-> git_active]
      ELSE IF checksDirty /\ dirty
      THEN [ok |-> FALSE, events |-> e2, active |-> << >>, git |-> git_active]
      ELSE IF cmd \in {"create", "update"}
      THEN [ok |-> git_active # Master, events |-> e3, active |-> git_active,
            git |-> git_active]
      ELSE IF cmd = "close"
      THEN IF feat = Master
           THEN [ok |-> FALSE, events |-> e3, active |-> git_active,
                 git |-> git_active]
           ELSE IF git_active # Master
           THEN [ok |-> TRUE,
                 events |-> e3 \o <<Ev("SwitchToMasterBranch", TRUE)>>,
                 active |-> Master, git |-> Master]
           ELSE [ok |-> TRUE, events |-> e3, active |-> git_active,
                 git |-> git_active]
      ELSE [ok |-> TRUE, events |-> e3, active |-> git_active, git |-> git_active]

CheckLocalGitState ==
  /\ pc = "local"
  /\ \E hasRemote \in BOOLEAN, dirty \in BOOLEAN :
       LET r == CheckLocalGitStateCall(command, feature_branch,
                                       git_active_branch, hasRemote, dirty)
       IN  /\ trace' = trace \o r.events
           /\ active_branch' = r.active
           /\ git_active_branch' = r.git
           /\ returned' = SetReturned("CheckLocalGitState", r.ok)
           /\ Continue(r.ok, IF offline THEN AfterRemote ELSE "remote")
  /\ UNCHANGED <<inputs, helpervars, review_files, feature_branch, fork_username,
                 fork_feature_branch, project_name, merge_author,
                 merge_description, ticket_info, user_info>>

(***************************************************************************)
(* ReviewHelper.CheckRemoteGitState.                                       *)
(***************************************************************************)
\* force_push of the create and update commands
ForcePushAlways(synchronized) == TRUE

ForcePush(synchronized) == ~synchronized

CheckRemoteGitStateCall(cmd, synchronized, syncOk, pushOk) ==
  IF cmd = "close"
  THEN [ok |-> syncOk, events |-> <<Ev("SynchronizeWithUpstream", syncOk)>>]
  ELSE IF cmd \in {"create", "update"}
  THEN LET e1 == <<Ev("CheckSynchronizedWithUpstream", synchronized)>>
           e2 == e1 \o (IF ~synchronized
                        THEN <<Ev("SynchronizeWithUpstream", syncOk)>> ELSE << >>)
           push == EvArg("PushToOrigin", pushOk,
                         IF ForcePush(synchronized) THEN "force" ELSE "plain")
       IN  IF ~synchronized /\ ~syncOk
           THEN [ok |-> FALSE, events |-> e2]
           ELSE [ok |-> pushOk, events |-> e2 \o <<push>>]
  ELSE IF cmd \in {"lint", "lint-test", "lint_test"}
  THEN [ok |-> TRUE, events |-> <<Ev("CheckSynchronizedWithUpstream", synchronized)>>]
  ELSE IF cmd = "merge"
  THEN [ok |-> syncOk, events |-> <<Ev("SynchronizeWithOrigin", syncOk)>>]
  ELSE [ok |-> TRUE, events |-> << >>]

CheckRemoteGitState ==
  /\ pc = "remote"
  /\ \E synchronized \in BOOLEAN, syncOk \in BOOLEAN, pushOk \in BOOLEAN :
       LET r == CheckRemoteGitStateCall(command, synchronized, syncOk, pushOk)
       IN  /\ trace' = trace \o r.events
           /\ returned' = SetReturned("CheckRemoteGitState", r.ok)
           /\ Continue(r.ok, AfterRemote)
  /\ UNCHANGED <<inputs, helpervars, git_active_branch, review_files, active_branch,
                 feature_branch, fork_username, fork_feature_branch,
                 project_name, merge_author, merge_description, ticket_info,
                 user_info>>

(***************************************************************************)
(* ReviewHelper.PrepareMerge.                                              *)
(***************************************************************************)
\* project.ProjectHelper.SUPPORTED_PROJECTS
SUPPORTED_PROJECTS ==
  {"dfdatetime", "dfkinds", "dfvfs", "dfwinreg", "dftimewolf", "l2tdevtools",
   "l2tdocs", "l2tpreg", "plaso"}

\* _PROJECT_NAME_PREFIX_REGEX matches s at position i: "[", a supported
\* project name, "]" and a space
PrefixRegexMatchesAt(s, i) ==
  /\ i + 3 <= Len(s)
  /\ s[i] = "["
  /\ s[i + 1] \in SUPPORTED_PROJECTS
  /\ s[i + 2] = "]"
  /\ s[i + 3] = " "

\* _PROJECT_NAME_PREFIX_REGEX.sub(u'', s): every non-overlapping match,
\* scanning from the left, is replaced by the empty string
RECURSIVE PrefixRegexSub(_)
PrefixRegexSub(s) ==
  IF s = << >> THEN << >>
  ELSE IF PrefixRegexMatchesAt(s, 1)
       THEN PrefixRegexSub(SubSeq(s, 5, Len(s)))
       ELSE <<Head(s)>> \o PrefixRegexSub(Tail(s))

\* the full name of the merge author
MergeFullnameOwnerFirst(info, user) ==
  IF info.owner # << >> THEN info.owner
  ELSE IF user.name # << >> THEN user.name ELSE user.company

MergeFullname(info, user) ==
  IF user.name # << >> THEN user.name
  ELSE IF info.owner # << >> THEN info.owner ELSE user.company

\* u'{0:s} <{1:s}>'.format(fullname, email)
FormatAuthor(fullname, email) == fullname \o <<" ", "<">> \o email \o <<">">>

PrepareMergeCall(info, user) ==
  LET query == <<Ev("QueryIssue", info.ok)>>
      lookup == query \o <<Ev("QueryUser", user.ok)>>
      description == PrefixRegexSub(info.subject)
      fullname == MergeFullname(info, user)
  IN  IF ~info.ok
      THEN [ok |-> FALSE, events |-> query, description |-> << >>,
            author |-> << >>]
      ELSE IF info.subject = << >>
      THEN [ok |-> FALSE, events |-> query, description |-> info.subject,
            author |-> << >>]
      ELSE IF info.owner_email = << >>
      THEN [ok |-> FALSE, events |-> query, description |-> description,
            author |-> << >>]
      ELSE IF ~user.ok
      THEN [ok |-> FALSE, events |-> lookup, description |-> description,
            author |-> << >>]
      ELSE IF fullname = << >>
      THEN [ok |-> FALSE, events |-> lookup, description |-> description,
            author |-> << >>]
      ELSE [ok |-> TRUE, events |-> lookup, description |-> description,
            author |-> FormatAuthor(fullname, info.owner_email)]

\* PrepareMerge, the services answering with one of the given responses
PrepareMergeOver(infos, users) ==
  /\ pc = "prepare"
  /\ \E info \in infos, user \in users :
       LET r == PrepareMergeCall(info, user)
       IN  \E escape \in EscapePoints(r.events) :
             IF escape = 0
             THEN /\ ticket_info' = info
                  /\ user_info' = user
                  /\ trace' = trace \o r.events
                  /\ merge_description' = r.description
                  /\ merge_author' = r.author
                  /\ returned' = SetReturned("PrepareMerge", r.ok)
                  /\ Continue(r.ok, "pull")
             ELSE /\ ticket_info' = IF escape = 1 THEN NoTicket ELSE info
                  /\ user_info' = NoUser
                  /\ trace' = trace \o EscapeAt(r.events, escape)
                  /\ merge_description' =
                       IF escape = 1 THEN << >> ELSE r.description
                  /\ merge_author' = << >>
                  /\ returned' = returned
                  /\ Crash
  /\ UNCHANGED <<inputs, helpervars, git_active_branch, review_files, active_branch,
                 feature_branch, fork_username, fork_feature_branch,
                 project_name>>

PrepareMerge == PrepareMergeOver(TicketInfos(SampleSubjects), UserInfos)

(***************************************************************************)
(* ReviewHelper.PullChangesFromFork.                                       *)
(***************************************************************************)
PullChangesFromFork ==
  /\ pc = "pull"
  /\ \E pullOk \in BOOLEAN :
       /\ trace' = trace \o <<Ev("PullFromFork", pullOk)>>
       /\ returned' = SetReturned("PullChangesFromFork", pullOk)
       /\ Continue(pullOk, "lint")
  /\ UNCHANGED <<inputs, helpervars, git_active_branch, review_files, active_branch,
                 feature_branch, fork_username, fork_feature_branch,
                 project_name, merge_author, merge_description, ticket_info,
                 user_info>>

(***************************************************************************)
(* ReviewHelper.Lint and ReviewHelper.Test.                                *)
(***************************************************************************)
Drop == Ev("DropUncommittedChanges", TRUE)

DropOnFailureAlways(cmd) == <<Drop>>

\* the compensation of a failed gate
DropOnFailure(cmd) == IF cmd = "merge" THEN <<Drop>> ELSE << >>

\* the commands Lint runs the linter for
LintCommandsWithoutUpdate ==
  {"create", "merge", "lint", "lint-test", "lint_test"}

LintCommands ==
  {"create", "merge", "lint", "lint-test", "lint_test", "update"}

LintCall(cmd, project, versionOk, filesOk) ==
  IF project = "l2tdocs"
  THEN [ok |-> TRUE, events |-> << >>]
  ELSE IF cmd \notin LintCommands
  THEN [ok |-> TRUE, events |-> << >>]
  ELSE IF ~versionOk
  THEN [ok |-> FALSE, events |-> <<Ev("CheckUpToDateVersion", FALSE)>>]
  ELSE LET e == <<Ev("CheckUpToDateVersion", TRUE),
                  Ev("GetChangedPythonFiles", TRUE), Ev("CheckFiles", filesOk)>>
       IN  IF ~filesOk
           THEN [ok |-> FALSE, events |-> e \o DropOnFailure(cmd)]
           ELSE [ok |-> TRUE, events |-> e]

Lint ==
  /\ pc = "lint"
  /\ \E versionOk \in BOOLEAN, filesOk \in BOOLEAN :
       LET r == LintCall(command, project_name, versionOk, filesOk)
       IN  /\ trace' = trace \o r.events
           /\ returned' = SetReturned("Lint", r.ok)
           /\ Continue(r.ok, "test")
  /\ UNCHANGED <<inputs, helpervars, git_active_branch, review_files, active_branch,
                 feature_branch, fork_username, fork_feature_branch,
                 project_name, merge_author, merge_description, ticket_info,
                 user_info>>

\* the commands Test runs the tests for
TestCommandsWithLint ==
  {"create", "lint", "lint-test", "lint_test", "merge", "test", "update"}

TestCommands ==
  {"create", "lint-test", "lint_test", "merge", "test", "update"}

TestCall(cmd, project, testsOk) ==
  IF project = "l2tdocs"
  THEN [ok |-> TRUE, events |-> << >>]
  ELSE IF cmd \notin TestCommands
  THEN [ok |-> TRUE, events |-> << >>]
  ELSE IF ~testsOk
  THEN [ok |-> FALSE, events |-> <<Ev("run_tests", FALSE)>> \o DropOnFailure(cmd)]
  ELSE [ok |-> TRUE, events |-> <<Ev("run_tests", TRUE)>>]

Test ==
  /\ pc = "test"
  /\ \E testsOk \in BOOLEAN :
       LET r == TestCall(command, project_name, testsOk)
       IN  /\ trace' = trace \o r.events
           /\ returned' = SetReturned("Test", r.ok)
           /\ Continue(r.ok, "dispatch")
  /\ UNCHANGED <<inputs, helpervars, git_active_branch, review_files, active_branch,
                 feature_branch, fork_username, fork_feature_branch,
                 project_name, merge_author, merge_description, ticket_info,
                 user_info>>

(***************************************************************************)
(* ReviewHelper.Create.                                                    *)
(***************************************************************************)
\* the review file check that opens Create
CreateRefusedNever(files, branch) == FALSE

CreateRefused(files, branch) == branch \in DOMAIN files

\* the test of the issue number CreateIssue returned
IssueCreated(issue) == issue # 0

\* the CreateIssue event carries the number the call returned, the
\* ReviewFile.Create event the number written to the review file
CreateCall(files, branch, n, originOk, issue, pullRequestOk) ==
  LET e1 == <<Ev("GetRemoteOrigin", originOk)>>
      e2 == e1 \o <<Ev("GetGitHubAccessToken", n = "token")>>
      e3 == e2 \o <<Ev("GetLastCommitMessage", TRUE),
                    EvArg("CreateIssue", issue # 0, issue)>>
      e4 == e3 \o <<EvArg("ReviewFile.Create", TRUE, issue),
                    Ev("CreatePullRequest", pullRequestOk)>>
  IN  IF CreateRefused(files, branch)
      THEN [ok |-> FALSE, events |-> << >>, files |-> files]
      ELSE IF ~originOk
      THEN [ok |-> FALSE, events |-> e1, files |-> files]
      ELSE IF n # "token"
      THEN [ok |-> FALSE, events |-> e2, files |-> files]
      ELSE IF ~IssueCreated(issue)
      THEN [ok |-> FALSE, events |-> e3, files |-> files]
      ELSE [ok |-> TRUE, events |-> e4,
            files |-> [b \in (DOMAIN files) \cup {branch} |->
                         IF b = branch THEN issue ELSE files[b]]]

Create ==
  /\ pc = "dispatch"
  /\ command = "create"
  /\ \E originOk \in BOOLEAN, issue \in {0} \cup IssueNumbers,
        pullRequestOk \in BOOLEAN :
       LET r == CreateCall(review_files, active_branch, netrc, originOk, issue,
                           pullRequestOk)
       IN  \E escape \in EscapePoints(r.events) :
             /\ review_files' = r.files
             /\ IF escape = 0
                THEN /\ trace' = trace \o r.events
                     /\ returned' = SetReturned("Create", r.ok)
                     /\ Finish(r.ok)
                ELSE /\ trace' = trace \o EscapeAt(r.events, escape)
                     /\ returned' = returned
                     /\ Crash
  /\ UNCHANGED <<inputs, helpervars, git_active_branch, active_branch, feature_branch,
                 fork_username, fork_feature_branch, project_name,
                 merge_author, merge_description, ticket_info, user_info>>

(***************************************************************************)
(* ReviewHelper.Close.                                                     *)
(***************************************************************************)
\* a Close that keeps the review file of a branch that is gone
CloseCallKeepsRecord(files, branch, hasBranch, closeOk) ==
  LET e1 == <<Ev("CheckHasBranch", hasBranch)>> \o
            (IF hasBranch THEN <<Ev("RemoveFeatureBranch", TRUE)>> ELSE << >>)
  IN  IF branch \notin DOMAIN files \/ ~hasBranch
      THEN [ok |-> TRUE, events |-> e1, files |-> files]
      ELSE [ok |-> TRUE,
            events |-> e1 \o <<EvArg("ReviewFile.Remove", TRUE, files[branch])>> \o
                       (IF files[branch] # 0
                        THEN <<Ev("CloseIssue", closeOk)>> ELSE << >>),
            files |-> [b \in (DOMAIN files) \ {branch} |-> files[b]]]

\* the ReviewFile.Remove event carries the issue number read from the file
CloseCall(files, branch, hasBranch, closeOk) ==
  LET e1 == <<Ev("CheckHasBranch", hasBranch)>> \o
            (IF hasBranch THEN <<Ev("RemoveFeatureBranch", TRUE)>> ELSE << >>)
  IN  IF branch \notin DOMAIN files
      THEN [ok |-> TRUE, events |-> e1, files |-> files]
      ELSE [ok |-> TRUE,
            events |-> e1 \o <<EvArg("ReviewFile.Remove", TRUE, files[branch])>> \o
                       (IF files[branch] # 0
                        THEN <<Ev("CloseIssue", closeOk)>> ELSE << >>),
            files |-> [b \in (DOMAIN files) \ {branch} |-> files[b]]]

Close ==
  /\ pc = "dispatch"
  /\ command = "close"
  /\ \E hasBranch \in BOOLEAN, closeOk \in BOOLEAN :
       LET r == CloseCall(review_files, feature_branch, hasBranch, closeOk)
       IN  \E escape \in EscapePoints(r.events) :
             /\ review_files' = r.files
             /\ IF escape = 0
                THEN /\ trace' = trace \o r.events
                     /\ returned' = SetReturned("Close", r.ok)
                     /\ Finish(r.ok)
                ELSE /\ trace' = trace \o EscapeAt(r.events, escape)
                     /\ returned' = returned
                     /\ Crash
  /\ UNCHANGED <<inputs, helpervars, git_active_branch, active_branch, feature_branch,
                 fork_username, fork_feature_branch, project_name,
                 merge_author, merge_description, ticket_info, user_info>>

(***************************************************************************)
(* Main: the lint, lint-test and test commands end after the gates.        *)
(***************************************************************************)
ReportGates ==
  /\ pc = "dispatch"
  /\ command \in {"lint", "lint-test", "lint_test", "test"}
  /\ Finish(TRUE)
  /\ UNCHANGED <<inputs, helpervars, git_active_branch, review_files, active_branch,
                 feature_branch, fork_username, fork_feature_branch,
                 project_name, merge_author, merge_description, ticket_info,
                 user_info, returned, trace>>

(***************************************************************************)
(* Main: merge-edit has no branch in the dispatch on the command, so the   *)
(* result stays False.                                                     *)
(***************************************************************************)
ReturnDefault ==
  /\ pc = "dispatch"
  /\ command \in {"merge-edit", "merge_edit"}
  /\ Finish(FALSE)
  /\ UNCHANGED <<inputs, helpervars, git_active_branch, review_files, active_branch,
                 feature_branch, fork_username, fork_feature_branch,
                 project_name, merge_author, merge_description, ticket_info,
                 user_info, returned, trace>>

(***************************************************************************)
(* ReviewHelper.Merge.                                                     *)
(***************************************************************************)
\* the documentation step of a merge, discarding when the trigger fails
DocsEventsDiscarding(hasDocs, triggerOk) ==
  IF hasDocs
  THEN <<Ev("UpdateAPIDocs", TRUE), Ev("AddPath", TRUE),
         Ev("TriggerBuild", triggerOk)>> \o
       (IF triggerOk THEN << >> ELSE <<Drop>>)
  ELSE << >>

\* the documentation step of a merge: docs/conf.py exists or not
DocsEvents(hasDocs, triggerOk) ==
  IF hasDocs
  THEN <<Ev("UpdateAPIDocs", TRUE), Ev("AddPath", TRUE),
         Ev("TriggerBuild", triggerOk)>>
  ELSE << >>

\* Merge, going on to the commit after a failed changelog update
MergeCallIgnoringChangelog(versionOk, changelogOk, hasDocs, triggerOk, commitOk, messageOk) ==
  LET e1 == <<Ev("UpdateVersionFile", versionOk)>>
      e2 == e1 \o <<Ev("UpdateDpkgChangelogFile", changelogOk)>>
      e3 == e2 \o DocsEvents(hasDocs, triggerOk) \o
            <<Ev("CommitToOriginInNameOf", commitOk)>>
  IN  IF ~versionOk
      THEN [ok |-> FALSE, events |-> e1 \o <<Drop>>]
      ELSE IF ~commitOk
      THEN [ok |-> FALSE, events |-> e3 \o <<Drop>>]
      ELSE [ok |-> TRUE, events |-> e3 \o <<Ev("AddMergeMessage", messageOk)>>]

MergeCall(versionOk, changelogOk, hasDocs, triggerOk, commitOk, messageOk) ==
  LET e1 == <<Ev("UpdateVersionFile", versionOk)>>
      e2 == e1 \o <<Ev("UpdateDpkgChangelogFile", changelogOk)>>
      e3 == e2 \o DocsEvents(hasDocs, triggerOk) \o
            <<Ev("CommitToOriginInNameOf", commitOk)>>
  IN  IF ~versionOk
      THEN [ok |-> FALSE, events |-> e1 \o <<Drop>>]
      ELSE IF ~changelogOk
      THEN [ok |-> FALSE, events |-> e2 \o <<Drop>>]
      ELSE IF ~commitOk
      THEN [ok |-> FALSE, events |-> e3 \o <<Drop>>]
      ELSE [ok |-> TRUE, events |-> e3 \o <<Ev("AddMergeMessage", messageOk)>>]

Merge ==
  /\ pc = "dispatch"
  /\ command = "merge"
  /\ \E versionOk \in BOOLEAN, changelogOk \in BOOLEAN, hasDocs \in BOOLEAN,
        triggerOk \in BOOLEAN, commitOk \in BOOLEAN, messageOk \in BOOLEAN :
       LET r == MergeCall(versionOk, changelogOk, hasDocs, triggerOk, commitOk,
                          messageOk)
       IN  \E escape \in EscapePoints(r.events) :
             IF escape = 0
             THEN /\ trace' = trace \o r.events
                  /\ returned' = SetReturned("Merge", r.ok)
                  /\ Finish(r.ok)
             ELSE /\ trace' = trace \o EscapeAt(r.events, escape)
                  /\ returned' = returned
                  /\ Crash
  /\ UNCHANGED <<inputs, helpervars, git_active_branch, review_files, active_branch,
                 feature_branch, fork_username, fork_feature_branch,
                 project_name, merge_author, merge_description, ticket_info,
                 user_info>>

(***************************************************************************)
(* ReviewHelper.Open: not implemented, always fails.                       *)
(***************************************************************************)
Open ==
  /\ pc = "dispatch"
  /\ command = "open"
  /\ returned' = SetReturned("Open", FALSE)
  /\ Finish(FALSE)
  /\ UNCHANGED <<inputs, helpervars, git_active_branch, review_files, active_branch,
                 feature_branch, fork_username, fork_feature_branch,
                 project_name, merge_author, merge_description, ticket_info,
                 user_info, trace>>

(***************************************************************************)
(* ReviewHelper.Update.                                                    *)
(***************************************************************************)
\* the review file check that opens Update
UpdateRefusedNever(files, branch) == FALSE

UpdateRefused(files, branch) == branch \notin DOMAIN files

UpdateCall(files, branch, updateOk) ==
  IF UpdateRefused(files, branch)
  THEN [ok |-> FALSE, events |-> << >>]
  ELSE [ok |-> updateOk,
        events |-> <<Ev("GetLastCommitMessage", TRUE), Ev("UpdateIssue", updateOk)>>]

Update ==
  /\ pc = "dispatch"
  /\ command = "update"
  /\ \E updateOk \in BOOLEAN :
       LET r == UpdateCall(review_files, active_branch, updateOk)
       IN  /\ trace' = trace \o r.events
           /\ returned' = SetReturned("Update", r.ok)
           /\ Finish(r.ok)
  /\ UNCHANGED <<inputs, helpervars, git_active_branch, review_files, active_branch,
                 feature_branch, fork_username, fork_feature_branch,
                 project_name, merge_author, merge_description, ticket_info,
                 user_info>>

(***************************************************************************)
(* ReviewHelper.UpdateAuthors and ReviewHelper.UpdateVersion.              *)
(***************************************************************************)
UpdateAuthorsCall(project, authorsOk) ==
  IF project = "l2tdocs"
  THEN [ok |-> TRUE, events |-> << >>]
  ELSE [ok |-> authorsOk, events |-> <<Ev("UpdateAuthorsFile", authorsOk)>>]

UpdateAuthors ==
  /\ pc = "dispatch"
  /\ command \in {"update-authors", "update_authors"}
  /\ \E authorsOk \in BOOLEAN :
       LET r == UpdateAuthorsCall(project_name, authorsOk)
       IN  /\ trace' = trace \o r.events
           /\ returned' = SetReturned("UpdateAuthors", r.ok)
           /\ Finish(r.ok)
  /\ UNCHANGED <<inputs, helpervars, git_active_branch, review_files, active_branch,
                 feature_branch, fork_username, fork_feature_branch,
                 project_name, merge_author, merge_description, ticket_info,
                 user_info>>

UpdateVersionCall(project, versionOk, changelogOk) ==
  IF project = "l2tdocs"
  THEN [ok |-> TRUE, events |-> << >>]
  ELSE IF ~versionOk
  THEN [ok |-> FALSE, events |-> <<Ev("UpdateVersionFile", FALSE)>>]
  ELSE [ok |-> changelogOk,
        events |-> <<Ev("UpdateVersionFile", TRUE),
                     Ev("UpdateDpkgChangelogFile", changelogOk)>>]

UpdateVersion ==
  /\ pc = "dispatch"
  /\ command \in {"update-version", "update_version"}
  /\ \E versionOk \in BOOLEAN, changelogOk \in BOOLEAN :
       LET r == UpdateVersionCall(project_name, versionOk, changelogOk)
       IN  /\ trace' = trace \o r.events
           /\ returned' = SetReturned("UpdateVersion", r.ok)
           /\ Finish(r.ok)
  /\ UNCHANGED <<inputs, helpervars, git_active_branch, review_files, active_branch,
                 feature_branch, fork_username, fork_feature_branch,
                 project_name, merge_author, merge_description, ticket_info,
                 user_info>>


(***************************************************************************)
(* UploadHelper (helpers/upload.py).  A token is "" while it is not set.   *)
(***************************************************************************)
_REVIEWERS_PER_PROJECT ==
  [p \in {"dfdatetime", "dfkinds", "dfvfs", "dfwinreg", "dftimewolf",
          "l2tpreg", "plaso"} |->
     CASE p = "dftimewolf" ->
            {"jberggren@gmail.com", "someguyiknow@google.com", "tomchop@gmail.com"}
       [] p = "plaso" ->
            {"aaronp@gmail.com", "jberggren@gmail.com", "joachim.metz@gmail.com",
             "onager@deerpie.com", "romaing@google.com"}
       [] OTHER -> {"joachim.metz@gmail.com", "onager@deerpie.com"}]

_REVIEWERS_DEFAULT ==
  {"jberggren@gmail.com", "joachim.metz@gmail.com", "onager@deerpie.com"}

_REVIEWERS_CC == {"kiddi@kiddaland.net", "log2timeline-dev@googlegroups.com"}

\* _REVIEWERS_PER_PROJECT.get(project_name, _REVIEWERS_DEFAULT)
ReviewerPool(project) ==
  IF project \in DOMAIN _REVIEWERS_PER_PROJECT
  THEN _REVIEWERS_PER_PROJECT[project] ELSE _REVIEWERS_DEFAULT

\* the reviewers _GetReviewer shuffles: the author stays in the list
ReviewerCandidatesWithAuthor(project, email) == ReviewerPool(project)

\* the reviewers _GetReviewer shuffles; it returns the first of the shuffled
\* list, that is any one of them
ReviewerCandidates(project, email) == ReviewerPool(project) \ {email}

\* _GetReviewersOnCC
GetReviewersOnCC(project, reviewer, email) ==
  ((ReviewerPool(project) \cup _REVIEWERS_CC) \ {reviewer}) \ {email}

\* the addresses git may report as the address of the submitting author
EmailAddresses ==
  (UNION {_REVIEWERS_PER_PROJECT[p] : p \in DOMAIN _REVIEWERS_PER_PROJECT})
  \cup _REVIEWERS_DEFAULT \cup _REVIEWERS_CC \cup {"someone@example.com"}

\* the names a project helper may determine
UploadProjects == (DOMAIN _REVIEWERS_PER_PROJECT) \cup {"l2tdocs", "l2tdevtools"}

NoCommand == [project |-> "", reviewer |-> "", cc |-> {}, issue |-> 0]

NoFetches == [access |-> 0, access_hits |-> 0, xsrf |-> 0, xsrf_hits |-> 0]

\* the helper as __init__ leaves it
NewUploadHelper(email) ==
  [email_address |-> email, access_token |-> "", xsrf_token |-> ""]

\* GetAccessToken, always asking upload.py for a token
GetAccessTokenUncached(st, fetched) ==
  [helper |-> [st.helper EXCEPT !.access_token = fetched],
   fetches |-> [st.fetches EXCEPT
                  !.access = @ + 1,
                  !.access_hits = @ + (IF fetched # "" THEN 1 ELSE 0)]]

\* GetAccessToken: st is the helper with its request counts, fetched the
\* token upload.py returns when asked; the call returns the helper's
\* access_token
GetAccessTokenCall(st, fetched) ==
  IF st.helper.access_token = ""
  THEN [helper |-> [st.helper EXCEPT !.access_token = fetched],
        fetches |-> [st.fetches EXCEPT
                       !.access = @ + 1,
                       !.access_hits = @ + (IF fetched # "" THEN 1 ELSE 0)]]
  ELSE st

\* GetXSRFToken: xsrf is the token the xsrf_token request yields, "" when
\* the request fails; the call returns the value of the ret field
GetXSRFTokenCall(st, fetched, xsrf) ==
  IF st.helper.xsrf_token = ""
  THEN LET s1 == GetAccessTokenCall(st, fetched)
       IN  IF s1.helper.access_token = ""
           THEN [helper |-> s1.helper, fetches |-> s1.fetches, ret |-> ""]
           ELSE [helper |-> [s1.helper EXCEPT !.xsrf_token = xsrf],
                 fetches |-> [s1.fetches EXCEPT
                                !.xsrf = @ + 1,
                                !.xsrf_hits = @ + (IF xsrf # "" THEN 1 ELSE 0)],
                 ret |-> xsrf]
  ELSE [helper |-> st.helper, fetches |-> st.fetches, ret |-> st.helper.xsrf_token]

\* CloseIssue and AddMergeMessage: both tokens, then one POST request
PostWithTokens(st, fetched1, fetched2, xsrf, postOk) ==
  LET s1 == GetAccessTokenCall(st, fetched1)
      s2 == GetXSRFTokenCall(s1, fetched2, xsrf)
  IN  [helper |-> s2.helper, fetches |-> s2.fetches,
       ret |-> IF s1.helper.access_token = "" \/ s2.ret = "" THEN FALSE ELSE postOk]

TokenValues == {"", "token"}

\* what urlopen does with a request: it returns a response with a status
\* code, or raises HTTPError (a 4xx or 5xx status) or URLError (no response)
Responses == {"200", "201", "204", "HTTPError", "URLError"}

\* the request of a network operation: try urlopen, except HTTPError, then
\* the status check; accepted are the status codes the operation takes as
\* success, logRaises tells that formatting the message of the status check
\* raises.  ok: the operation goes on to return its result; raised: an
\* exception leaves the operation
UrlOpen(response, accepted, logRaises) ==
  [ok |-> response \in accepted,
   raised |-> \/ response = "URLError"
              \/ /\ response \notin accepted \cup {"HTTPError", "URLError"}
                 /\ logRaises]

NoExchange ==
  [op |-> "", response |-> "none", requests |-> 0, raised |-> FALSE,
   ret |-> FALSE]

\* what the caller of a network operation sees: requests is the number of
\* requests the operation sent to its own URL, ret tells that it returned a
\* true value
Exchange(op, response, o) ==
  [op |-> op, response |-> response, requests |-> 1, raised |-> o.raised,
   ret |-> o.ok /\ ~o.raised]

\* GetXSRFToken with the response to its request: body is what read() yields
GetXSRFTokenRequest(st, fetched, response, body) ==
  LET o == UrlOpen(response, {"200"}, FALSE)
      r == GetXSRFTokenCall(st, fetched, IF o.ok THEN body ELSE "")
      sent == r.fetches.xsrf > st.fetches.xsrf
  IN  [helper |-> r.helper, fetches |-> r.fetches, ret |-> r.ret,
       sent |-> sent, raised |-> sent /\ o.raised]

\* CloseIssue and AddMergeMessage with the responses to the xsrf_token
\* request and to the POST request
PostRequest(st, fetched1, fetched2, xsrfResponse, body, response, accepted) ==
  LET s1 == GetAccessTokenCall(st, fetched1)
      x == GetXSRFTokenRequest(s1, fetched2, xsrfResponse, body)
      o == UrlOpen(response, accepted, FALSE)
      r == PostWithTokens(st, fetched1, fetched2, x.ret, o.ok)
      posted == ~x.raised /\ s1.helper.access_token # "" /\ x.ret # ""
  IN  [helper |-> r.helper, fetches |-> r.fetches,
       response |-> IF posted THEN response ELSE "none",
       requests |-> IF posted THEN 1 ELSE 0,
       raised |-> x.raised \/ (posted /\ o.raised),
       ret |-> posted /\ r.ret /\ ~o.raised]

UploadIdle ==
  /\ upload_helper = NewUploadHelper("")
  /\ fetches = NoFetches
  /\ upload_command = NoCommand
  /\ calls = 0
  /\ exchange = NoExchange

(***************************************************************************)
(* PylintHelper.CheckFiles.                                                *)
(***************************************************************************)
FileNames == {"a.py", "b.py", "c.py"}

\* the lists of files CheckFiles may be called with
FileLists == UNION {[1..n -> FileNames] : n \in 0..MaxFiles}

\* the loop of CheckFiles, stopping at the first file pylint finds fault with
CheckFilesLoopStoppingAtFailure(filenames, failing) ==
  LET bad == {i \in 1..Len(filenames) : filenames[i] \in failing}
      last == IF bad = {} THEN Len(filenames)
              ELSE CHOOSE i \in bad : \A j \in bad : i <= j
  IN  [invoked |-> SubSeq(filenames, 1, last),
       failed_filenames |-> IF bad = {} THEN << >> ELSE <<filenames[last]>>]

\* the loop of CheckFiles: one pylint invocation for each name of the list,
\* in order; failing are the files for which pylint exits non-zero
CheckFilesLoop(filenames, failing) ==
  [invoked |-> [i \in 1..Len(filenames) |-> filenames[i]],
   failed_filenames |-> SelectSeq(filenames, LAMBDA f : f \in failing)]

\* CheckFiles: reported are the names printed below "Files with linter
\* errors:", one for each element of filenames
CheckFilesCall(filenames, failing) ==
  LET loop == CheckFilesLoop(filenames, failing)
  IN  IF loop.failed_filenames # << >>
      THEN [ret |-> FALSE, invoked |-> loop.invoked, reported |-> filenames]
      ELSE [ret |-> TRUE, invoked |-> loop.invoked, reported |-> << >>]

\* CheckFiles not called yet
NotChecked(filenames, failing) ==
  [filenames |-> filenames, failing |-> failing, called |-> FALSE,
   ret |-> FALSE, invoked |-> << >>, reported |-> << >>]

(***************************************************************************)
(* PylintHelper.CheckUpToDateVersion.  Text is a sequence of characters    *)
(* and words; the output of a command is a sequence of lines.              *)
(***************************************************************************)
DigitChars == <<"0", "1", "2", "3", "4", "5", "6", "7", "8", "9">>

\* the decimal numeral of a number, as pylint prints it
RECURSIVE Numeral(_)
Numeral(n) ==
  IF n < 10 THEN <<DigitChars[n + 1]>>
  ELSE Numeral(n \div 10) \o <<DigitChars[(n % 10) + 1]>>

\* int(text) of a text of decimal digits
RECURSIVE IntOf(_)
IntOf(text) ==
  IF text = << >> THEN 0
  ELSE 10 * IntOf(SubSeq(text, 1, Len(text) - 1))
       + (CHOOSE d \in 0..9 : DigitChars[d + 1] = text[Len(text)])

\* text.split(sep)
RECURSIVE Split(_, _)
Split(text, sep) ==
  IF Contains(text, sep)
  THEN <<PartitionHead(text, sep)>> \o Split(PartitionTail(text, sep), sep)
  ELSE <<text>>

\* line.startswith(b'pylint ')
StartsWithPylint(line) ==
  Len(line) >= 2 /\ line[1] = "pylint" /\ line[2] = " "

\* the version of a line that starts with "pylint ": the text after the first
\* space up to a comma, split at the dots, each part converted with int
VersionOfLine(line) ==
  LET version == PartitionHead(PartitionTail(line, " "), ",")
      parts == Split(version, ".")
  IN  [i \in 1..Len(parts) |-> IntOf(parts[i])]

\* the loop over the lines of the output: the last line that starts with
\* "pylint " sets the version tuple, which starts as (0, 0, 0)
RECURSIVE VersionTuple(_)
VersionTuple(output) ==
  IF output = << >> THEN <<0, 0, 0>>
  ELSE IF StartsWithPylint(output[Len(output)])
  THEN VersionOfLine(output[Len(output)])
  ELSE VersionTuple(SubSeq(output, 1, Len(output) - 1))

MINIMUM_VERSION == <<"1", ".", "6", ".", "5">>

\* MINIMUM_VERSION.split(u'.'): a list of strings, not a tuple of numbers
_MINIMUM_VERSION_TUPLE == Split(MINIMUM_VERSION, ".")

\* the interpreters the helper is written for: the major version of Python
Pythons == {2, 3}

\* version_tuple >= self._MINIMUM_VERSION_TUPLE, a tuple compared with a
\* list: Python 2 orders values of different types by the names of their
\* types, and "tuple" comes after "list", whatever the elements are; Python 3
\* raises TypeError
TupleGeList(python, version_tuple, minimum) ==
  IF python = 2 THEN [ret |-> TRUE, raised |-> FALSE]
  ELSE [ret |-> FALSE, raised |-> TRUE]

CheckUpToDateVersionCall(python, exit_code, output) ==
  IF exit_code # 0
  THEN [ret |-> FALSE, raised |-> FALSE, version_tuple |-> << >>]
  ELSE LET version_tuple == VersionTuple(output)
           r == TupleGeList(python, version_tuple, _MINIMUM_VERSION_TUPLE)
       IN  [ret |-> r.ret, raised |-> r.raised, version_tuple |-> version_tuple]

\* what `pylint --version` prints for a version
AstroidLine == <<"astroid", " ", "1", ".", "4", ".", "9", ",">>

VersionLine(version, comma) ==
  <<"pylint", " ">> \o Numeral(version[1]) \o <<".">> \o Numeral(version[2])
    \o <<".">> \o Numeral(version[3]) \o (IF comma THEN <<",">> ELSE << >>)

\* CheckUpToDateVersion not called yet: version is the version of the pylint
\* installed, << >> when its output has no line for it
NotVersionChecked(python, exit_code, version, output) ==
  [python |-> python, exit_code |-> exit_code, version |-> version,
   output |-> output, called |-> FALSE, ret |-> FALSE, raised |-> FALSE,
   version_tuple |-> << >>]

PylintIdle ==
  /\ check_files = NotChecked(<< >>, {})
  /\ version_check = NotVersionChecked(2, 0, << >>, << >>)

(***************************************************************************)
(* The state when Main starts: the arguments argparse accepted and the     *)
(* environment of the run.                                                 *)
(***************************************************************************)
ReviewFiles ==
  UNION {[bs -> {0} \cup IssueNumbers] : bs \in SUBSET ReviewBranches}

InitWorkflow ==
  /\ command \in Commands
  /\ offline \in BOOLEAN
  /\ branch_arg \in IF command \in {"close", "open"} THEN BranchArguments ELSE {<< >>}
  /\ issue_arg \in IF command \in {"merge", "open"} THEN {0} \cup IssueNumbers ELSE {0}
  /\ origin_arg \in IF command \in {"merge", "merge-edit", "merge_edit"}
                    THEN OriginArguments ELSE {<< >>}
  /\ netrc \in {"absent", "no_token", "token"}
  /\ git_active_branch \in {Feature, Master}
  /\ review_files \in ReviewFiles
  /\ pc = "parse"
  /\ result = -1
  /\ active_branch = << >>
  /\ feature_branch = << >>
  /\ fork_username = << >>
  /\ fork_feature_branch = << >>
  /\ project_name = ""
  /\ merge_author = << >>
  /\ merge_description = << >>
  /\ ticket_info = NoTicket
  /\ user_info = NoUser
  /\ returned = << >>
  /\ trace = << >>


Init == InitWorkflow /\ UploadIdle /\ PylintIdle

(***************************************************************************)
(* The calls of one UploadHelper.                                          *)
(***************************************************************************)
HelperState == [helper |-> upload_helper, fetches |-> fetches]

GetAccessToken ==
  /\ calls < MaxCalls
  /\ \E fetched \in TokenValues :
       LET r == GetAccessTokenCall(HelperState, fetched)
       IN  /\ upload_helper' = r.helper
           /\ fetches' = r.fetches
  /\ calls' = calls + 1
  /\ UNCHANGED <<wfvars, check_files, version_check, upload_command, exchange>>

GetXSRFToken ==
  /\ calls < MaxCalls
  /\ \E fetched \in TokenValues, response \in Responses, body \in TokenValues :
       LET r == GetXSRFTokenRequest(HelperState, fetched, response, body)
       IN  /\ upload_helper' = r.helper
           /\ fetches' = r.fetches
           /\ exchange' =
                [op |-> "GetXSRFToken",
                 response |-> IF r.sent THEN response ELSE "none",
                 requests |-> IF r.sent THEN 1 ELSE 0,
                 raised |-> r.raised,
                 ret |-> ~r.raised /\ r.ret # ""]
  /\ calls' = calls + 1
  /\ UNCHANGED <<wfvars, check_files, version_check, upload_command>>

CloseIssue ==
  /\ calls < MaxCalls
  /\ \E fetched1 \in TokenValues, fetched2 \in TokenValues,
        xsrfResponse \in Responses, body \in TokenValues,
        response \in Responses :
       LET r == PostRequest(HelperState, fetched1, fetched2, xsrfResponse,
                            body, response, {"200"})
       IN  /\ upload_helper' = r.helper
           /\ fetches' = r.fetches
           /\ exchange' =
                [op |-> "CloseIssue", response |-> r.response,
                 requests |-> r.requests, raised |-> r.raised, ret |-> r.ret]
  /\ calls' = calls + 1
  /\ UNCHANGED <<wfvars, check_files, version_check, upload_command>>

AddMergeMessage ==
  /\ calls < MaxCalls
  /\ \E fetched1 \in TokenValues, fetched2 \in TokenValues,
        xsrfResponse \in Responses, body \in TokenValues,
        response \in Responses :
       LET r == PostRequest(HelperState, fetched1, fetched2, xsrfResponse,
                            body, response, {"200", "201"})
       IN  /\ upload_helper' = r.helper
           /\ fetches' = r.fetches
           /\ exchange' =
                [op |-> "AddMergeMessage", response |-> r.response,
                 requests |-> r.requests, raised |-> r.raised, ret |-> r.ret]
  /\ calls' = calls + 1
  /\ UNCHANGED <<wfvars, check_files, version_check, upload_command>>

\* CreateIssue: the reviewer and the CC list of the upload.py command line,
\* and the issue number parsed from its output (0 when there is none)
CreateIssue ==
  /\ calls < MaxCalls
  /\ \E project \in UploadProjects, issue \in {0} \cup IssueNumbers :
       \E reviewer \in ReviewerCandidates(project, upload_helper.email_address) :
         upload_command' =
           [project |-> project, reviewer |-> reviewer,
            cc |-> GetReviewersOnCC(project, reviewer,
                                    upload_helper.email_address),
            issue |-> issue]
  /\ calls' = calls + 1
  /\ UNCHANGED <<wfvars, check_files, version_check, upload_helper, fetches, exchange>>

\* QueryIssue: one GET request, the parsed response or None
QueryIssue ==
  /\ calls < MaxCalls
  /\ \E response \in Responses :
       exchange' = Exchange("QueryIssue", response,
                            UrlOpen(response, {"200"}, FALSE))
  /\ calls' = calls + 1
  /\ UNCHANGED <<wfvars, check_files, version_check, upload_helper, fetches, upload_command>>

(***************************************************************************)
(* The calls of the GitHubHelper.                                          *)
(***************************************************************************)
\* CreatePullRequest: one POST request
CreatePullRequest ==
  /\ calls < MaxCalls
  /\ \E response \in Responses :
       exchange' = Exchange("CreatePullRequest", response,
                            UrlOpen(response, {"200", "201"}, FALSE))
  /\ calls' = calls + 1
  /\ UNCHANGED <<wfvars, check_files, version_check, upload_helper, fetches, upload_command>>

\* QueryUser: one GET request; the message of its status check formats the
\* user name, a string, with {0:d}
QueryUser ==
  /\ calls < MaxCalls
  /\ \E response \in Responses :
       exchange' = Exchange("QueryUser", response,
                            UrlOpen(response, {"200"}, TRUE))
  /\ calls' = calls + 1
  /\ UNCHANGED <<wfvars, check_files, version_check, upload_helper, fetches, upload_command>>

\* the workflow while only the UploadHelper is looked at: a close run that
\* has just initialized its helpers
WorkflowIdle ==
  /\ command = "close"
  /\ offline = FALSE
  /\ branch_arg = Feature
  /\ issue_arg = 0
  /\ origin_arg = << >>
  /\ netrc = "token"
  /\ git_active_branch = Master
  /\ review_files = [b \in {Feature} |-> 12345]
  /\ pc = "local"
  /\ result = -1
  /\ active_branch = << >>
  /\ feature_branch = Feature
  /\ fork_username = << >>
  /\ fork_feature_branch = << >>
  /\ project_name = "plaso"
  /\ merge_author = << >>
  /\ merge_description = << >>
  /\ ticket_info = NoTicket
  /\ user_info = NoUser
  /\ returned = [m \in {"InitializeHelpers"} |-> TRUE]
  /\ trace = <<Ev("GetEmailAddress", TRUE)>>

\* a new helper of one author: the token and network operations do not look
\* at the address
InitUpload ==
  /\ WorkflowIdle
  /\ upload_helper = NewUploadHelper("someone@example.com")
  /\ fetches = NoFetches
  /\ upload_command = NoCommand
  /\ calls = 0
  /\ exchange = NoExchange
  /\ PylintIdle

\* a new helper of any author
InitCreateIssue ==
  /\ WorkflowIdle
  /\ \E email \in EmailAddresses : upload_helper = NewUploadHelper(email)
  /\ fetches = NoFetches
  /\ upload_command = NoCommand
  /\ calls = 0
  /\ exchange = NoExchange
  /\ PylintIdle

\* the token and network operations of the clients
NextUpload ==
  \/ GetAccessToken
  \/ GetXSRFToken
  \/ CloseIssue
  \/ AddMergeMessage
  \/ QueryIssue
  \/ CreatePullRequest
  \/ QueryUser

SpecUpload == InitUpload /\ [][NextUpload]_vars

\* the upload.py command lines of CreateIssue
NextCreateIssue == CreateIssue

SpecCreateIssue == InitCreateIssue /\ [][NextCreateIssue]_vars

(***************************************************************************)
(* CheckFiles on every list of up to MaxFiles files.                       *)
(***************************************************************************)
InitPylint ==
  /\ WorkflowIdle
  /\ UploadIdle
  /\ \E filenames \in FileLists :
       \E failing \in SUBSET {filenames[i] : i \in 1..Len(filenames)} :
         check_files = NotChecked(filenames, failing)
  /\ version_check = NotVersionChecked(2, 0, << >>, << >>)

CheckFiles ==
  /\ ~check_files.called
  /\ check_files' =
       LET r == CheckFilesCall(check_files.filenames, check_files.failing)
       IN  [check_files EXCEPT !.called = TRUE, !.ret = r.ret,
                               !.invoked = r.invoked, !.reported = r.reported]
  /\ UNCHANGED <<wfvars, upvars, version_check>>

NextPylint == CheckFiles

SpecPylint == InitPylint /\ [][NextPylint]_vars

(***************************************************************************)
(* CheckUpToDateVersion on every version of up to MaxVersionPart.          *)
(***************************************************************************)
Versions == [1..3 -> 0..MaxVersionPart]

InitVersion ==
  /\ WorkflowIdle
  /\ UploadIdle
  /\ check_files = NotChecked(<< >>, {})
  /\ \E python \in Pythons, exit_code \in {0, 1} :
       \/ \E version \in Versions, comma \in BOOLEAN :
            version_check =
              NotVersionChecked(python, exit_code, version,
                                <<VersionLine(version, comma), AstroidLine>>)
       \/ version_check =
            NotVersionChecked(python, exit_code, << >>, <<AstroidLine>>)

CheckUpToDateVersion ==
  /\ ~version_check.called
  /\ version_check' =
       LET r == CheckUpToDateVersionCall(version_check.python,
                                         version_check.exit_code,
                                         version_check.output)
       IN  [version_check EXCEPT !.called = TRUE, !.ret = r.ret,
                                 !.raised = r.raised,
                                 !.version_tuple = r.version_tuple]
  /\ UNCHANGED <<wfvars, upvars, check_files>>

NextVersion == CheckUpToDateVersion

SpecVersion == InitVersion /\ [][NextVersion]_vars

(***************************************************************************)
(* PrepareMerge on every ticket subject of up to MaxSubjectLen tokens.     *)
(***************************************************************************)
SubjectTokens == {"[", "]", " ", "plaso", "Fix"}

AllSubjects == UNION {[1..n -> SubjectTokens] : n \in 0..MaxSubjectLen}

\* a merge run that has reached PrepareMerge
InitSubject ==
  /\ command = "merge"
  /\ offline = FALSE
  /\ branch_arg = << >>
  /\ issue_arg = 12345
  /\ origin_arg = ForkFeature
  /\ netrc = "token"
  /\ git_active_branch = Master
  /\ review_files = << >>
  /\ pc = "prepare"
  /\ result = -1
  /\ active_branch = Master
  /\ feature_branch = << >>
  /\ fork_username = <<"alice">>
  /\ fork_feature_branch = Feature
  /\ project_name = "plaso"
  /\ merge_author = << >>
  /\ merge_description = << >>
  /\ ticket_info = NoTicket
  /\ user_info = NoUser
  /\ returned = [m \in {"InitializeHelpers", "CheckLocalGitState",
                        "CheckRemoteGitState"} |-> TRUE]
  /\ trace = <<Ev("GetEmailAddress", TRUE), Ev("CheckHasProjectOrigin", TRUE),
               Ev("CheckHasUncommittedChanges", FALSE),
               Ev("GetActiveBranch", TRUE), Ev("SynchronizeWithOrigin", TRUE)>>
  /\ UploadIdle
  /\ PylintIdle

PrepareMergeAnySubject ==
  PrepareMergeOver(TicketInfos(AllSubjects), UserInfos)

NextSubject == PrepareMergeAnySubject

SpecSubject == InitSubject /\ [][NextSubject]_vars

(***************************************************************************)
(* One run of review.py.                                                   *)
(***************************************************************************)
Next ==
  \/ ParseArguments
  \/ CreateReviewHelper
  \/ InitializeHelpers
  \/ CheckLocalGitState
  \/ CheckRemoteGitState
  \/ PrepareMerge
  \/ PullChangesFromFork
  \/ Lint
  \/ Test
  \/ Create
  \/ Close
  \/ ReportGates
  \/ Merge
  \/ Open
  \/ Update
  \/ UpdateAuthors
  \/ UpdateVersion
  \/ ReturnDefault

Spec == Init /\ [][Next]_vars

(***************************************************************************)
(* Properties.                                                             *)
(***************************************************************************)
PushCalls == Calls("PushToOrigin")

ForcedPushCalls == {i \in PushCalls : trace[i].arg = "force"}

\* a call of the given name, answered with the given value, before call i
CalledBefore(op, ret, i) ==
  \E j \in 1..(i - 1) : trace[j].op = op /\ trace[j].ret = ret

\* the review file of the active branch was there when the run started
RecordExistedAtStart ==
  git_active_branch \in DOMAIN review_files /\ ~Called("ReviewFile.Create")

\* C1 as stated: when a review file already exists for the active branch, a
\* create run fails with exit status 1, creates no review ticket and performs
\* no forced push to origin.
C1_NoTicketNoForcedPush ==
  (command = "create" /\ RecordExistedAtStart) =>
    /\ (pc = "done" => result = 1)
    /\ ~Called("CreateIssue")
    /\ ForcedPushCalls = {}

\* C1 amended: when a review file already exists for the active branch, a
\* create run fails with exit status 1 and never asks for a review ticket;
\* the remote state check that precedes Create may have pushed to origin, and
\* that push is forced exactly when the branch was found behind upstream.
C1_NoTicket ==
  (command = "create" /\ RecordExistedAtStart) =>
    /\ (pc = "done" => result = 1)
    /\ ~Called("CreateIssue")
    /\ \A i \in PushCalls :
         trace[i].arg = "force"
           <=> CalledBefore("CheckSynchronizedWithUpstream", FALSE, i)

C1_Witness ==
  /\ command = "create"
  /\ pc = "done"
  /\ RecordExistedAtStart
  /\ HasReturned("Create", FALSE)
  /\ ForcedPushCalls # {}

\* C2: in a create or update run a branch found behind upstream is
\* synchronized, successfully, before any push to origin; after a failed
\* synchronize nothing is pushed; and a push is forced exactly when a
\* synchronize step ran before it.
C2_SynchronizeBeforePush ==
  command \in {"create", "update"} =>
    /\ \A i \in PushCalls :
         /\ CalledBefore("CheckSynchronizedWithUpstream", FALSE, i)
              => CalledBefore("SynchronizeWithUpstream", TRUE, i)
         /\ trace[i].arg = "force"
              <=> \E j \in 1..(i - 1) : trace[j].op = "SynchronizeWithUpstream"
    /\ (\E j \in Calls("SynchronizeWithUpstream") : ~trace[j].ret)
         => PushCalls = {}
    /\ ("CheckRemoteGitState" \in DOMAIN returned
          /\ \E j \in Calls("CheckSynchronizedWithUpstream") : ~trace[j].ret)
         => Called("SynchronizeWithUpstream")

C2_Witness ==
  /\ command = "update"
  /\ HasReturned("CheckRemoteGitState", TRUE)
  /\ \E i \in ForcedPushCalls : CalledBefore("SynchronizeWithUpstream", TRUE, i)

\* the call right before call i is a failed call of one of the given names
FollowsFailureOf(ops, i) ==
  i > 1 /\ trace[i - 1].op \in ops /\ trace[i - 1].ret = FALSE

DropCalls == Calls("DropUncommittedChanges")

C4_GateFailureDiscards ==
  (command = "merge" /\ pc = "done") =>
    \A i \in 1..Len(trace) :
      (trace[i].op \in {"CheckUpToDateVersion", "CheckFiles", "run_tests"}
         /\ trace[i].ret = FALSE)
        => \E j \in DropCalls : j > i

\* the calls that go over the network
NetworkOps ==
  {"SynchronizeWithUpstream", "SynchronizeWithOrigin", "PushToOrigin",
   "PullFromFork", "CreateIssue", "CreatePullRequest", "UpdateIssue",
   "CloseIssue", "AddMergeMessage", "QueryIssue", "QueryUser", "TriggerBuild"}

NetworkCalls == {i \in 1..Len(trace) : trace[i].op \in NetworkOps}

\* C5 as stated: a create run without a GitHub credential (no .netrc, or a
\* .netrc without an access token) fails with exit status 1 before any
\* network call.
C5_NoCredentialNoNetwork ==
  (command = "create" /\ netrc # "token") =>
    /\ (pc = "done" => result = 1)
    /\ NetworkCalls = {}

\* C5 amended: a create run without a GitHub credential fails with exit
\* status 1 and asks for no review ticket and no pull request; it fails
\* before any call of a collaborator when .netrc is absent, whereas a .netrc
\* without an access token is only noticed by Create, after the remote state
\* check has pushed to origin.
C5_NoCredentialNoTicket ==
  (command = "create" /\ netrc # "token") =>
    /\ (pc = "done" => result = 1)
    /\ ~Called("CreateIssue")
    /\ ~Called("CreatePullRequest")
    /\ (netrc = "absent" => trace = << >>)

C5_Witness ==
  /\ command = "create"
  /\ netrc = "no_token"
  /\ pc = "done"
  /\ \E i \in Calls("GetGitHubAccessToken") : ~trace[i].ret
  /\ PushCalls # {}

\* C6: once Close has run, no review file exists for the feature branch,
\* also when the local branch does not exist and when closing the ticket
\* fails.
C6_CloseRemovesRecord ==
  "Close" \in DOMAIN returned => feature_branch \notin DOMAIN review_files

C6_Witness ==
  /\ "Close" \in DOMAIN returned
  /\ \E i \in Calls("CheckHasBranch") : ~trace[i].ret
  /\ \E i \in Calls("CloseIssue") : ~trace[i].ret
  /\ Called("ReviewFile.Remove")

\* what removing only a leading "[project] " token leaves of a subject
WithoutLeadingPrefix(s) ==
  IF PrefixRegexMatchesAt(s, 1) THEN SubSeq(s, 5, Len(s)) ELSE s

\* C8: the merge description is the ticket subject without a leading
\* "[project] " token naming a supported project; everything else of the
\* subject, a later "[project] " occurrence included, is left as it is.
C8_OnlyLeadingPrefixRemoved ==
  ("PrepareMerge" \in DOMAIN returned /\ ticket_info.ok
     /\ ticket_info.subject # << >>)
    => merge_description = WithoutLeadingPrefix(ticket_info.subject)

\* the conditions under which the merge preparation has to fail
PrepareMergeMustFail ==
  \/ ~ticket_info.ok
  \/ ticket_info.subject = << >>
  \/ ticket_info.owner_email = << >>
  \/ ~user_info.ok
  \/ (user_info.name = << >> /\ ticket_info.owner = << >>
        /\ user_info.company = << >>)

\* C9: PrepareMerge fails exactly when the ticket query fails, the subject or
\* the owner email is empty, the GitHub user lookup fails or no name is
\* known; otherwise the merge author is "<name> <owner_email>", the name
\* being the first non-empty one of GitHub name, ticket owner, GitHub company.
C9_MergeAuthorFallback ==
  "PrepareMerge" \in DOMAIN returned =>
    /\ returned["PrepareMerge"] = ~PrepareMergeMustFail
    /\ returned["PrepareMerge"] =>
         \E name \in {user_info.name, ticket_info.owner, user_info.company} :
           /\ name # << >>
           /\ user_info.name # << >> => name = user_info.name
           /\ (user_info.name = << >> /\ ticket_info.owner # << >>)
                => name = ticket_info.owner
           /\ merge_author =
                name \o <<" ", "<">> \o ticket_info.owner_email \o <<">">>

C9_Witness ==
  /\ HasReturned("PrepareMerge", TRUE)
  /\ user_info.name = << >>
  /\ user_info.company = <<"Acme">>
  /\ ticket_info.owner = <<"Alice">>
  /\ merge_author = <<"Alice", " ", "<", "a@b.com", ">">>

\* C7: the reviewer CreateIssue chooses is a member of the project's pool
\* (the default pool for an unlisted project) and is not the submitting
\* author, and the CC set is the pool and the default CC set together, less
\* the reviewer and the author.
C7_ReviewerNeverAuthor ==
  upload_command # NoCommand =>
    LET pool == IF upload_command.project \in DOMAIN _REVIEWERS_PER_PROJECT
                THEN _REVIEWERS_PER_PROJECT[upload_command.project]
                ELSE _REVIEWERS_DEFAULT
        author == upload_helper.email_address
    IN  /\ upload_command.reviewer \in pool
        /\ upload_command.reviewer # author
        /\ upload_command.cc =
             {a \in pool \cup _REVIEWERS_CC :
                a # upload_command.reviewer /\ a # author}
        /\ upload_command.reviewer \notin upload_command.cc
        /\ author \notin upload_command.cc

C7_Witness ==
  /\ upload_command # NoCommand
  /\ upload_command.project \notin DOMAIN _REVIEWERS_PER_PROJECT
  /\ upload_helper.email_address \in _REVIEWERS_DEFAULT
  /\ Cardinality(upload_command.cc) = 3

\* C10 as stated: the helper asks for the access token at most once and for
\* the XSRF token at most once, whatever the calls and whatever the requests
\* return.
C10_EachTokenRequestedOnce ==
  fetches.access <= 1 /\ fetches.xsrf <= 1

\* C10 amended: the helper obtains the access token at most once and the
\* XSRF token at most once: a token that was obtained is cached and not
\* asked for again, whereas a request that returned no token is repeated by
\* the next call that needs the token.
C10_EachTokenObtainedOnce ==
  /\ fetches.access_hits <= 1
  /\ fetches.xsrf_hits <= 1
  /\ upload_helper.access_token = "" <=> fetches.access_hits = 0
  /\ upload_helper.xsrf_token = "" <=> fetches.xsrf_hits = 0

C10_Witness ==
  /\ fetches.access >= 2
  /\ fetches.access_hits = 1
  /\ fetches.xsrf >= 2
  /\ fetches.xsrf_hits = 1

\* the operations of the clients that send a request over the network
ClientNetworkOps ==
  {"QueryIssue", "CloseIssue", "AddMergeMessage", "GetXSRFToken",
   "CreatePullRequest", "QueryUser"}

\* C11: a network operation of the ReviewTicket and Forge clients sends its
\* request once, and when the response is an error status or the transport
\* fails it returns None or False to its caller: no exception leaves the
\* operation.
C11_NoExceptionEscapes ==
  exchange.op \in ClientNetworkOps =>
    /\ exchange.requests <= 1
    /\ ~exchange.raised
    /\ exchange.response \in {"HTTPError", "URLError"} => ~exchange.ret

\* C12: CheckFiles invokes pylint exactly once for each file of the list, in
\* the order of the list and without stopping at a failing file, and it
\* returns True exactly when no invocation failed (True for the empty list).
C12_EveryFileLintedOnce ==
  check_files.called =>
    /\ check_files.invoked = check_files.filenames
    /\ check_files.ret <=>
         \A i \in 1..Len(check_files.filenames) :
           check_files.filenames[i] \notin check_files.failing

\* the first of three files fails, a later one passes, all were linted
C12_Witness ==
  /\ check_files.called
  /\ Len(check_files.filenames) = 3
  /\ check_files.filenames[1] \in check_files.failing
  /\ check_files.filenames[3] \notin check_files.failing
  /\ Len(check_files.invoked) = 3
  /\ ~check_files.ret

\* C13: when CheckFiles fails, the names it reports as having linter errors
\* are exactly the names of the files whose pylint invocation failed.
C13_ReportsFailedFiles ==
  (check_files.called /\ ~check_files.ret) =>
    {check_files.reported[i] : i \in 1..Len(check_files.reported)}
      = check_files.failing

\* C14 as stated: an update run without a review file for the active branch
\* fails, never calls UpdateIssue and pushes nothing to origin.
C14_NoRecordNoUpdateNoPush ==
  (command = "update" /\ git_active_branch \notin DOMAIN review_files) =>
    /\ (pc = "done" => result = 1)
    /\ ~Called("UpdateIssue")
    /\ PushCalls = {}

\* C14 amended: an update run without a review file for the active branch
\* fails and never calls UpdateIssue; the remote state check that precedes
\* Update may have pushed to origin, and that push is forced exactly when the
\* branch was found behind upstream.
C14_NoRecordNoUpdate ==
  (command = "update" /\ git_active_branch \notin DOMAIN review_files) =>
    /\ (pc = "done" => result = 1)
    /\ ~Called("UpdateIssue")
    /\ ("Update" \in DOMAIN returned => ~returned["Update"])
    /\ \A i \in PushCalls :
         trace[i].arg = "force"
           <=> CalledBefore("CheckSynchronizedWithUpstream", FALSE, i)

C14_Witness ==
  /\ command = "update"
  /\ pc = "done"
  /\ git_active_branch \notin DOMAIN review_files
  /\ HasReturned("Update", FALSE)
  /\ PushCalls # {}

\* an exception left a request of the run
Raised ==
  \E i \in 1..Len(trace) :
    trace[i].op \in RequestOps /\ trace[i].arg = "raised"

\* C15: a create run writes a review file for the active branch exactly when
\* CreateIssue returned an issue number, and the file then holds that number;
\* when CreateIssue fails no review file is written and CreatePullRequest is
\* not called; once the file is written the command succeeds, whether or not
\* the creation of the pull request fails.
C15_RecordIffTicketCreated ==
  command = "create" =>
    LET created == \E i \in Calls("CreateIssue") : trace[i].ret
    IN  /\ Called("ReviewFile.Create") <=> created
        /\ created =>
             /\ git_active_branch \in DOMAIN review_files
             /\ \A i \in Calls("CreateIssue") :
                  review_files[git_active_branch] = trace[i].arg
             /\ pc = "done" /\ result = 0
        /\ ~created =>
             /\ ~Called("CreatePullRequest")
             /\ "Create" \in DOMAIN returned => ~returned["Create"]

\* the commands C16 speaks of
ExitStatusCommands ==
  {"create", "update", "close", "merge", "merge-edit", "lint", "lint-test",
   "test", "update-authors", "update-version"}

\* a step of the run has failed: the arguments were refused, .netrc is
\* missing, a ReviewHelper method returned False or an exception left it
RequiredStepFailed ==
  \/ PrintHelpOnError(command, branch_arg, issue_arg, origin_arg, offline)
  \/ NetrcMissing(netrc)
  \/ \E m \in DOMAIN returned : ~returned[m]
  \/ Raised

\* C16: for each of the commands create, update, close, merge, merge-edit,
\* lint, lint-test, test, update-authors and update-version, a run in which
\* every step succeeds ends with exit status 0 and a run in which a required
\* step fails ends with exit status 1.
C16_ExitStatus ==
  (command \in ExitStatusCommands /\ pc = "done") =>
    /\ ~RequiredStepFailed => result = 0
    /\ RequiredStepFailed => result = 1

\* the procedures Main dispatches to on the command
Procedures ==
  {"Create", "Close", "Merge", "Open", "Update", "UpdateAuthors",
   "UpdateVersion"}

LinterOps == {"CheckUpToDateVersion", "GetChangedPythonFiles", "CheckFiles"}

\* C17: once the repository state checks of a lint run have passed, its result
\* is the result of the lint gate and the tests are never run; once those of a
\* test run have passed, its result is the result of the test gate and the
\* linter is never invoked; neither runs a procedure after the gates.
C17_StandaloneGates ==
  /\ command = "lint" =>
       /\ ~Called("run_tests")
       /\ DOMAIN returned \cap Procedures = {}
       /\ (pc = "done" /\ "Lint" \in DOMAIN returned)
            => (result = 0 <=> returned["Lint"])
  /\ command = "test" =>
       /\ \A op \in LinterOps : ~Called(op)
       /\ DOMAIN returned \cap Procedures = {}
       /\ (pc = "done" /\ "Lint" \in DOMAIN returned)
            => /\ "Test" \in DOMAIN returned
               /\ result = 0 <=> returned["Test"]

\* a lint run whose linter found fault with a file
C17_Witness ==
  /\ command = "lint"
  /\ pc = "done"
  /\ result = 1
  /\ \E i \in Calls("CheckFiles") : ~trace[i].ret
  /\ HasReturned("Lint", FALSE)

\* the git operations of the remote state check
RemoteStateOps ==
  {"SynchronizeWithUpstream", "CheckSynchronizedWithUpstream", "PushToOrigin",
   "SynchronizeWithOrigin"}

\* C18: with --offline the remote state check is never performed, so none of
\* its synchronize and push operations is issued; and --offline is accepted
\* for lint, lint-test and test only: any other command fails before the
\* helpers are initialized and before any git operation.
C18_Offline ==
  offline =>
    /\ "CheckRemoteGitState" \notin DOMAIN returned
    /\ \A op \in RemoteStateOps : ~Called(op)
    /\ command \notin {"lint", "lint-test", "lint_test", "test"} =>
         /\ pc \in {"parse", "done"}
         /\ pc = "done" => result = 1
         /\ returned = << >>
         /\ trace = << >>

\* an offline lint-test run that passed both gates
C18_Witness ==
  /\ offline
  /\ command = "lint-test"
  /\ pc = "done"
  /\ result = 0
  /\ HasReturned("CheckLocalGitState", TRUE)
  /\ Called("CheckFiles")
  /\ Called("run_tests")

\* a successful call of op1 precedes a call of op2
OkBefore(op1, op2) ==
  \E i \in Calls(op1), j \in Calls(op2) : trace[i].ret /\ i < j

\* every call of the gates lies between calls i and j and succeeded
GatesBetween(i, j) ==
  /\ \A k \in Calls("CheckUpToDateVersion") \cup Calls("CheckFiles")
            \cup Calls("run_tests") : i < k /\ k < j /\ trace[k].ret
  /\ \A k \in Calls("CheckFiles"), l \in Calls("run_tests") : k < l

\* C19: in a merge run the commit to the main repository comes after, in this
\* order, the successful QueryIssue and QueryUser of PrepareMerge, the pull
\* from the fork, the lint gate, the test gate, the version file update and
\* the changelog update; when one of them fails nothing is committed and no
\* merge message is added to the ticket.
C19_CommitAfterAllSteps ==
  command = "merge" =>
    /\ Called("CommitToOriginInNameOf") =>
         /\ OkBefore("QueryIssue", "QueryUser")
         /\ OkBefore("QueryUser", "PullFromFork")
         /\ OkBefore("PullFromFork", "UpdateVersionFile")
         /\ OkBefore("UpdateVersionFile", "UpdateDpkgChangelogFile")
         /\ OkBefore("UpdateDpkgChangelogFile", "CommitToOriginInNameOf")
         /\ \A m \in {"PrepareMerge", "PullChangesFromFork", "Lint", "Test"} :
              HasReturned(m, TRUE)
         /\ \E i \in Calls("PullFromFork"), j \in Calls("UpdateVersionFile") :
              GatesBetween(i, j)
         /\ project_name # "l2tdocs"
              => Called("CheckFiles") /\ Called("run_tests")
    /\ (\/ \E m \in {"PrepareMerge", "PullChangesFromFork", "Lint", "Test"} :
             HasReturned(m, FALSE)
        \/ \E k \in Calls("UpdateVersionFile")
                      \cup Calls("UpdateDpkgChangelogFile") : ~trace[k].ret)
         => ~Called("CommitToOriginInNameOf") /\ ~Called("AddMergeMessage")
    /\ \A k \in Calls("AddMergeMessage") :
         CalledBefore("CommitToOriginInNameOf", TRUE, k)

\* a merge that committed and told the ticket, after both gates ran
C19_Witness ==
  /\ command = "merge"
  /\ pc = "done"
  /\ result = 0
  /\ Called("CheckFiles")
  /\ Called("run_tests")
  /\ \E i \in Calls("CommitToOriginInNameOf") : trace[i].ret
  /\ Called("AddMergeMessage")

\* C20: in a create or update run of a project other than l2tdocs, CreateIssue
\* and UpdateIssue are only called after the linter and the tests have passed
\* in that run; when a gate fails neither is called and no review file is
\* written.
C20_TicketAfterGates ==
  (command \in {"create", "update"} /\ project_name # "l2tdocs") =>
    /\ \A i \in Calls("CreateIssue") \cup Calls("UpdateIssue") :
         /\ CalledBefore("CheckFiles", TRUE, i)
         /\ CalledBefore("run_tests", TRUE, i)
         /\ GatesBetween(0, i)
         /\ HasReturned("Lint", TRUE)
         /\ HasReturned("Test", TRUE)
    /\ (HasReturned("Lint", FALSE) \/ HasReturned("Test", FALSE)) =>
         /\ ~Called("CreateIssue")
         /\ ~Called("UpdateIssue")
         /\ ~Called("ReviewFile.Create")

\* an update run that reached the ticket after both gates
C20_Witness ==
  /\ command = "update"
  /\ project_name = "plaso"
  /\ pc = "done"
  /\ result = 0
  /\ \E i \in Calls("UpdateIssue") :
       CalledBefore("CheckFiles", TRUE, i) /\ CalledBefore("run_tests", TRUE, i)

\* a call of op that succeeded
Succeeded(op) == \E i \in Calls(op) : trace[i].ret

\* C21: Merge reports success exactly when the version file update, the
\* changelog update and the commit to the main repository all succeeded: a
\* failed readthedocs trigger and a failed merge message never fail the merge,
\* and the commit is attempted whatever became of the trigger.
C21_MergeSuccess ==
  (command = "merge" /\ pc = "done" /\ Called("UpdateVersionFile")) =>
    /\ result = 0 <=> /\ Succeeded("UpdateVersionFile")
                      /\ Succeeded("UpdateDpkgChangelogFile")
                      /\ Succeeded("CommitToOriginInNameOf")
    /\ Succeeded("UpdateDpkgChangelogFile") => Called("CommitToOriginInNameOf")
    /\ "Merge" \in DOMAIN returned /\ (returned["Merge"] <=> result = 0)

\* C22: in a close run CloseIssue is called exactly when a review file of the
\* feature branch held an issue number, and only after that file has been
\* removed; Close returns True and the run succeeds in every case, whether the
\* branch or the review file is missing or CloseIssue fails.
C22_CloseBestEffort ==
  (command = "close" /\ pc = "done" /\ Called("CheckHasBranch")) =>
    /\ Called("CloseIssue")
         <=> \E i \in Calls("ReviewFile.Remove") : trace[i].arg # 0
    /\ \A j \in Calls("CloseIssue") :
         /\ CalledBefore("ReviewFile.Remove", TRUE, j)
         /\ feature_branch \notin DOMAIN review_files
    /\ HasReturned("Close", TRUE)
    /\ result = 0

\* a version at least another, component by component as numbers
RECURSIVE VersionAtLeast(_, _)
VersionAtLeast(v, w) ==
  IF v = << >> \/ w = << >> THEN Len(v) >= Len(w)
  ELSE IF Head(v) # Head(w) THEN Head(v) > Head(w)
  ELSE VersionAtLeast(Tail(v), Tail(w))

\* the version CheckUpToDateVersion is to go by: (0, 0, 0) without a line
ReportedVersion ==
  IF version_check.version = << >> THEN <<0, 0, 0>> ELSE version_check.version

\* C23: CheckUpToDateVersion returns True exactly when `pylint --version`
\* exits with 0 and the version of its output, compared component by
\* component as numbers, is at least 1.6.5; without a version line the
\* version counts as 0.0.0 and the result is False.
C23_VersionAtLeastMinimum ==
  version_check.called =>
    /\ ~version_check.raised
    /\ version_check.ret <=>
         /\ version_check.exit_code = 0
         /\ VersionAtLeast(ReportedVersion, <<1, 6, 5>>)

\* the branch a "username:branch" argument names: the part after the last colon
BranchOfArgument(branch) ==
  IF Contains(branch, ":") THEN RPartitionTail(branch, ":") ELSE branch

\* C24: the feature branch a close or open run works on is the branch
\* argument reduced to the part after its last colon, and is the argument
\* itself when it has no colon.
C24_UsernameBranchNotation ==
  (command \in {"close", "open"} /\ "InitializeHelpers" \in DOMAIN returned) =>
    feature_branch = BranchOfArgument(branch_arg)

\* a lint, test or version update step of the run failed
FailedSteps ==
  {i \in 1..Len(trace) :
     /\ trace[i].op \in {"CheckFiles", "run_tests", "UpdateVersionFile",
                         "UpdateDpkgChangelogFile"}
     /\ trace[i].ret = FALSE}

\* C25: only a merge run discards the uncommitted changes: whatever step
\* fails under another command, the working tree stays as it was.
C25_DiscardOnlyInMerge ==
  command # "merge" => DropCalls = {}

\* the run of a command other than merge ended on a failed lint, test or
\* version update step without a discard
C25_Witness ==
  /\ command # "merge"
  /\ pc = "done"
  /\ result = 1
  /\ FailedSteps # {}
  /\ DropCalls = {}

====
